---- MODULE Spec2Model ----
(***************************************************************************)
(* Model of dtrunc (src/main.rs): the pcap global-header codec, the record *)
(* stream parser, the detruncation transform and the record serializer,    *)
(* driven by main().  Buffers are sequences of bytes (0..255); the u32/u16 *)
(* fields are decoded and encoded little-endian, and the 3/1/28-bit packed *)
(* trailer of the header is decoded and encoded bit by bit the way the     *)
(* derived deku reader and writer do it.                                   *)
(***************************************************************************)
EXTENDS Naturals, Sequences, FiniteSets

VARIABLES
    reader,       \* main: the whole input file, a sequence of bytes
    verbose,      \* opt.verbose
    gen,          \* how the input file was laid out (description of the input only)
    pc,           \* main's position
    header,       \* main: Some(header) / None
    records,      \* main: result of PcapRecord::read_all
    detruncated,  \* main: result of PcapRecord::detruncate
    count,        \* detruncate: records repaired
    orig_size,    \* detruncate: reporting counter
    out_size,     \* detruncate: reporting counter
    data,         \* main: the output buffer being prepared
    output,       \* the output file: NoFile, or its bytes
    stdout        \* lines printed so far

vars == <<reader, verbose, gen, pc, header, records, detruncated, count,
          orig_size, out_size, data, output, stdout>>

----------------------------------------------------------------------------
(* Bounds of the checked inputs *)

\* most records in an input file
MaxRecs == 2
\* largest caplen / origlen declared by a generated record
MaxLen == 2

(* Program constants *)

PCAP_HEADER_LEN == 24
RECORD_HEADER_LEN == 16

None == [tag |-> "None"]
NoFile == [tag |-> "NoFile"]

----------------------------------------------------------------------------
(* Little-endian integer fields *)

RECURSIVE FromLeBytes(_)
FromLeBytes(b) ==
    IF Len(b) = 0 THEN 0 ELSE Head(b) + 256 * FromLeBytes(Tail(b))

RECURSIVE ToLeBytes(_, _)
ToLeBytes(v, n) ==
    IF n = 0 THEN <<>> ELSE <<v % 256>> \o ToLeBytes(v \div 256, n - 1)

Pow2(n) == 2 ^ n

(* A u32 is kept as its two 16-bit halves, so that every value of the    *)
(* type can be written down; a usize (a length, an index) is a natural   *)
(* number.                                                                 *)

U32FromLeBytes(b) ==
    [ lo |-> FromLeBytes(SubSeq(b, 1, 2)), hi |-> FromLeBytes(SubSeq(b, 3, 4)) ]

U32ToLeBytes(v) == ToLeBytes(v.lo, 2) \o ToLeBytes(v.hi, 2)

U32Greater(a, b) == a.hi > b.hi \/ (a.hi = b.hi /\ a.lo > b.lo)

U32ToUsize(v) == v.hi * 65536 + v.lo

UsizeToU32(n) == [ lo |-> n % 65536, hi |-> n \div 65536 ]

\* 0xa1b2c3d4
PCAP_MAGIC == [ hi |-> 41394, lo |-> 50132 ]

(* Bit views, most significant bit of each byte first *)

ByteBits(b) == [i \in 1..8 |-> (b \div Pow2(8 - i)) % 2]

ViewBits(bytes) ==
    [k \in 1..(8 * Len(bytes)) |->
        (bytes[(k - 1) \div 8 + 1] \div Pow2(7 - ((k - 1) % 8))) % 2]

RECURSIVE BitsValue(_)
BitsValue(bits) ==
    IF Len(bits) = 0 THEN 0
    ELSE 2 * BitsValue(SubSeq(bits, 1, Len(bits) - 1)) + bits[Len(bits)]

\* a whole number of bytes of bits, as bytes
BitsToBytes(bits) ==
    [i \in 1..(Len(bits) \div 8) |-> BitsValue(SubSeq(bits, 8 * (i - 1) + 1, 8 * i))]

(* deku, endian = "little": a field of n bits.  Reading keeps the leading  *)
(* whole bytes as they come, right-aligns the remaining n % 8 bits in a    *)
(* last byte and pads with zero bytes up to the size of the type; the      *)
(* bytes are then taken as a little-endian integer.  Writing takes the     *)
(* little-endian bytes of the value, emits the leading whole bytes and     *)
(* then the low n % 8 bits of the next byte.                               *)

ReadBitsLE(bits, typeBytes) ==
    LET n == Len(bits)
        full == n \div 8
        r == n % 8
        whole == [i \in 1..full |-> BitsValue(SubSeq(bits, 8 * (i - 1) + 1, 8 * i))]
        last == IF r = 0 THEN <<>> ELSE <<BitsValue(SubSeq(bits, 8 * full + 1, n))>>
        got == whole \o last
    IN  got \o [i \in 1..(typeBytes - Len(got)) |-> 0]

WriteBitsLE(input, n) ==
    LET full == n \div 8
        r == n % 8
        whole == ViewBits(SubSeq(input, 1, full))
        last == IF r = 0 THEN <<>> ELSE SubSeq(ByteBits(input[full + 1]), 8 - r + 1, 8)
    IN  whole \o last

ReadU32(bits) == U32FromLeBytes(ReadBitsLE(bits, 4))
ReadU16(bits) == FromLeBytes(ReadBitsLE(bits, 2))
ReadU8(bits) == FromLeBytes(ReadBitsLE(bits, 1))

WriteU32(v, n) == WriteBitsLE(U32ToLeBytes(v), n)
WriteU16(v, n) == WriteBitsLE(ToLeBytes(v, 2), n)
WriteU8(v, n) == WriteBitsLE(ToLeBytes(v, 1), n)

TakeBits(bits, off, n) == SubSeq(bits, off + 1, off + n)

----------------------------------------------------------------------------
(* PcapHeader *)

\* the bits of bytes first..last of buf
FieldBits(buf, first, last) == ViewBits(SubSeq(buf, first, last))

\* PcapHeader::from_bytes((reader, 0)).ok(): None when the buffer is too
\* short; the fields are read one after the other, the last three out of
\* the bits of bytes 20..23
PcapHeaderFromBytes(buf) ==
    IF Len(buf) < PCAP_HEADER_LEN THEN None
    ELSE [tag |-> "Some",
          val |-> [ magic    |-> ReadU32(FieldBits(buf, 1, 4)),
                    major    |-> ReadU16(FieldBits(buf, 5, 6)),
                    minor    |-> ReadU16(FieldBits(buf, 7, 8)),
                    resv1    |-> ReadU32(FieldBits(buf, 9, 12)),
                    resv2    |-> ReadU32(FieldBits(buf, 13, 16)),
                    snaplen  |-> ReadU32(FieldBits(buf, 17, 20)),
                    fcs      |-> ReadU8(TakeBits(FieldBits(buf, 21, 24), 0, 3)),
                    f        |-> ReadU8(TakeBits(FieldBits(buf, 21, 24), 3, 1)),
                    linktype |-> ReadU32(TakeBits(FieldBits(buf, 21, 24), 4, 28)) ]]

\* faulty variant: the magic is not compared
PcapHeaderReadAnyMagic(buf) ==
    PcapHeaderFromBytes(buf)

\* PcapHeader::read
PcapHeaderRead(buf) ==
    LET parsed == PcapHeaderFromBytes(buf)
    IN  IF parsed = None THEN None
        ELSE IF parsed.val.magic = PCAP_MAGIC THEN parsed ELSE None

\* faulty variant: the packed fields are written in the opposite order
PcapHeaderOutSwapped(h) ==
    BitsToBytes(
        WriteU32(h.magic, 32) \o WriteU16(h.major, 16) \o WriteU16(h.minor, 16)
        \o WriteU32(h.resv1, 32) \o WriteU32(h.resv2, 32) \o WriteU32(h.snaplen, 32)
        \o WriteU32(h.linktype, 28) \o WriteU8(h.f, 1) \o WriteU8(h.fcs, 3))

\* PcapHeader::out
PcapHeaderOut(h) ==
    BitsToBytes(
        WriteU32(h.magic, 32) \o WriteU16(h.major, 16) \o WriteU16(h.minor, 16)
        \o WriteU32(h.resv1, 32) \o WriteU32(h.resv2, 32) \o WriteU32(h.snaplen, 32)
        \o WriteU8(h.fcs, 3) \o WriteU8(h.f, 1) \o WriteU32(h.linktype, 28))

----------------------------------------------------------------------------
(* PcapRecord *)

\* PcapRecord::len
PcapRecordLen(rec) == Len(rec.data) + RECORD_HEADER_LEN

\* the four u32 fields of a record, from its first 16 bytes
RecordFields(cursor) ==
    [ ts      |-> U32FromLeBytes(SubSeq(cursor, 1, 4)),
      tn      |-> U32FromLeBytes(SubSeq(cursor, 5, 8)),
      caplen  |-> U32FromLeBytes(SubSeq(cursor, 9, 12)),
      origlen |-> U32FromLeBytes(SubSeq(cursor, 13, 16)) ]

WithData(fields, d) ==
    [ ts |-> fields.ts, tn |-> fields.tn, caplen |-> fields.caplen,
      origlen |-> fields.origlen, data |-> d ]

\* faulty variant: a record whose data is cut short by the end of the buffer
\* is returned with the bytes that are there
PcapRecordReadShortData(cursor) ==
    IF Len(cursor) < RECORD_HEADER_LEN THEN None
    ELSE LET fields == RecordFields(cursor)
             rest == Len(cursor) - RECORD_HEADER_LEN
         IN  IF U32Greater(fields.caplen, UsizeToU32(rest))
             THEN [tag |-> "Some",
                   val |-> WithData(fields, SubSeq(cursor, RECORD_HEADER_LEN + 1, Len(cursor)))]
             ELSE [tag |-> "Some",
                   val |-> WithData(fields, SubSeq(cursor, RECORD_HEADER_LEN + 1,
                                       RECORD_HEADER_LEN + U32ToUsize(fields.caplen)))]

\* PcapRecord::read: from_bytes fails (None) when the 16-byte header or the
\* caplen bytes of data it declares are not all there
PcapRecordRead(cursor) ==
    IF Len(cursor) < RECORD_HEADER_LEN THEN None
    ELSE LET fields == RecordFields(cursor)
             rest == Len(cursor) - RECORD_HEADER_LEN
         IN  IF U32Greater(fields.caplen, UsizeToU32(rest)) THEN None
             ELSE [tag |-> "Some",
                   val |-> WithData(fields, SubSeq(cursor, RECORD_HEADER_LEN + 1,
                                       RECORD_HEADER_LEN + U32ToUsize(fields.caplen)))]

\* PcapRecord::read_all
RECURSIVE PcapRecordReadAll(_)
PcapRecordReadAll(cursor) ==
    LET record == PcapRecordRead(cursor)
    IN  IF record = None THEN <<>>
        ELSE <<record.val>>
             \o PcapRecordReadAll(SubSeq(cursor, PcapRecordLen(record.val) + 1, Len(cursor)))

\* faulty variant: the timestamp is written big-endian
PcapRecordOutBigEndian(rec) ==
    <<rec.ts.hi \div 256, rec.ts.hi % 256, rec.ts.lo \div 256, rec.ts.lo % 256>>
    \o U32ToLeBytes(rec.tn) \o U32ToLeBytes(rec.caplen) \o U32ToLeBytes(rec.origlen)
    \o rec.data

\* PcapRecord::out: the four header fields, then the elements of data
\* (to_bytes writes the whole Vec)
PcapRecordOut(rec) ==
    U32ToLeBytes(rec.ts) \o U32ToLeBytes(rec.tn) \o U32ToLeBytes(rec.caplen)
    \o U32ToLeBytes(rec.origlen) \o rec.data

\* PcapRecord::write_all (the progress line printed when verbose goes to
\* the terminal only)
RECURSIVE PcapRecordWriteAll(_, _)
PcapRecordWriteAll(recs, v) ==
    IF Len(recs) = 0 THEN <<>>
    ELSE PcapRecordOut(Head(recs)) \o PcapRecordWriteAll(Tail(recs), v)

\* faulty variant: pads in front of the captured bytes
ResizeFront(d, newLen) ==
    IF newLen <= Len(d) THEN SubSeq(d, 1, newLen)
    ELSE [i \in 1..(newLen - Len(d)) |-> 0] \o d

\* faulty variant: takes the number of missing bytes for the new length
ResizeByDelta(d, newLen) ==
    IF newLen <= 2 * Len(d) THEN SubSeq(d, 1, newLen - Len(d))
    ELSE d \o [i \in 1..(newLen - 2 * Len(d)) |-> 0]

\* Vec::resize(new_len, 0x00): truncates, or appends zero bytes
Resize(d, newLen) ==
    IF newLen <= Len(d) THEN SubSeq(d, 1, newLen)
    ELSE d \o [i \in 1..(newLen - Len(d)) |-> 0]

\* faulty variant: a complete record is counted and then left out
PassThroughDropped(acc, rec, v) ==
    [acc EXCEPT !.orig_size = IF v THEN @ + PcapRecordLen(rec) ELSE @,
                !.out_size = IF v THEN @ + PcapRecordLen(rec) ELSE @]

\* detruncate, caplen == origlen: the record is pushed as it is
PassThrough(acc, rec, v) ==
    [acc EXCEPT !.out = Append(@, rec),
                !.orig_size = IF v THEN @ + PcapRecordLen(rec) ELSE @,
                !.out_size = IF v THEN @ + PcapRecordLen(rec) ELSE @]

\* faulty variant: caplen is left as it was read
RepairKeepCaplen(acc, n, rec, v) ==
    [acc EXCEPT !.out = Append(@, [rec EXCEPT !.data = Resize(@, U32ToUsize(rec.origlen))]),
                !.count = @ + 1,
                !.log = IF v THEN Append(@, <<"Resizing", n + 1, rec.caplen, rec.origlen>>)
                        ELSE @,
                !.orig_size = IF v THEN @ + PcapRecordLen(rec) ELSE @,
                !.out_size = IF v THEN @ + U32ToUsize(rec.origlen) + RECORD_HEADER_LEN ELSE @]

\* faulty variant: the payload is extended inside the verbose block
RepairVerboseOnly(acc, n, rec, v) ==
    [acc EXCEPT !.out = Append(@, [rec EXCEPT !.data = IF v THEN Resize(@, U32ToUsize(rec.origlen)) ELSE @,
                                             !.caplen = rec.origlen]),
                !.count = @ + 1,
                !.log = IF v THEN Append(@, <<"Resizing", n + 1, rec.caplen, rec.origlen>>)
                        ELSE @,
                !.orig_size = IF v THEN @ + PcapRecordLen(rec) ELSE @,
                !.out_size = IF v THEN @ + U32ToUsize(rec.origlen) + RECORD_HEADER_LEN ELSE @]

\* detruncate, caplen < origlen: the sizes are reported when verbose, data
\* is resized to origlen with zero bytes, caplen becomes origlen (origlen is
\* a u32 and converts to usize as it is)
Repair(acc, n, rec, v) ==
    [acc EXCEPT !.out = Append(@, [rec EXCEPT !.data = Resize(@, U32ToUsize(rec.origlen)),
                                             !.caplen = rec.origlen]),
                !.count = @ + 1,
                !.log = IF v THEN Append(@, <<"Resizing", n + 1, rec.caplen, rec.origlen>>)
                        ELSE @,
                !.orig_size = IF v THEN @ + PcapRecordLen(rec) ELSE @,
                !.out_size = IF v THEN @ + U32ToUsize(rec.origlen) + RECORD_HEADER_LEN ELSE @]

\* faulty variant: a record with caplen > origlen is skipped, the run goes on
DetruncateOneSkipBad(acc, n, rec, v) ==
    IF rec.caplen = rec.origlen THEN PassThrough(acc, rec, v)
    ELSE IF U32Greater(rec.caplen, rec.origlen) THEN acc
    ELSE Repair(acc, n, rec, v)

\* PcapRecord::detruncate, one pass of the loop body over the record rec
\* (n counts from 0 as enumerate() does), on the accumulated state acc
DetruncateOne(acc, n, rec, v) ==
    IF rec.caplen = rec.origlen THEN PassThrough(acc, rec, v)
    ELSE IF U32Greater(rec.caplen, rec.origlen) THEN [acc EXCEPT !.panicked = TRUE]
    ELSE Repair(acc, n, rec, v)

RECURSIVE DetruncateLoop(_, _, _, _)
DetruncateLoop(acc, n, recs, v) ==
    IF n = Len(recs) \/ acc.panicked THEN acc
    ELSE DetruncateLoop(DetruncateOne(acc, n, recs[n + 1], v), n + 1, recs, v)

\* PcapRecord::detruncate: the locals before the loop, the loop, and the
\* summary printed after it
PcapRecordDetruncate(recs, v) ==
    LET start == [ panicked  |-> FALSE,
                   out       |-> <<>>,
                   count     |-> 0,
                   orig_size |-> PCAP_HEADER_LEN,
                   out_size  |-> PCAP_HEADER_LEN,
                   log       |-> <<>> ]
        end == DetruncateLoop(start, 0, recs, v)
    IN  IF end.panicked \/ ~v THEN end
        ELSE [end EXCEPT !.log = @ \o << <<"Packets detruncated", end.count, Len(recs)>>,
                                         <<"Original filesize", end.orig_size,
                                           "New filesize", end.out_size>> >>]

----------------------------------------------------------------------------
(* Input files *)

Magic == <<212, 195, 178, 161>>

\* the byte-swapped magic, the nanosecond-timestamp magic, and no magic
OtherMagics == { <<161, 178, 195, 212>>, <<77, 60, 178, 161>>, <<0, 0, 0, 0>> }

Reserved == { <<0, 0, 0, 0>>, <<1, 2, 3, 4>>, <<255, 0, 128, 7>> }

\* bytes 20..23: the 3-bit, 1-bit and 28-bit fields
Trailers == { <<1, 0, 0, 0>>, <<0, 0, 0, 0>>, <<181, 18, 52, 246>>,
              <<255, 255, 255, 255>>, <<16, 0, 0, 1>>, <<224, 1, 2, 3>>,
              <<105, 128, 0, 15>>, <<14, 255, 0, 240>> }

HeaderBytes(magic, resv1, resv2, trailer) ==
    magic \o <<2, 0, 4, 0>> \o resv1 \o resv2 \o <<0, 0, 4, 0>> \o trailer

\* the i-th record of a file: its own timestamp, the two lengths, and
\* have bytes of non-zero data
RecordBytes(i, caplen, origlen, have) ==
    <<232 + i, 3, i, 0>> \o <<i, 0, 16, 128>>
    \o <<caplen, 0, 0, 0>> \o <<origlen, 0, 0, 0>>
    \o [j \in 1..have |-> 16 * i + j]

LenPairs == (0..MaxLen) \X (0..MaxLen)

Layouts == UNION { [1..k -> LenPairs] : k \in 0..MaxRecs }

RECURSIVE BodyBytes(_, _)
BodyBytes(layout, i) ==
    IF i > Len(layout) THEN <<>>
    ELSE RecordBytes(i, layout[i][1], layout[i][2], layout[i][1])
         \o BodyBytes(layout, i + 1)

\* what may follow the last complete record: nothing, a stray byte, a
\* record header one byte short, a record whose data is cut off, and a
\* record header declaring 2^32 - 1 bytes of data
Tails == { <<>>,
           <<7>>,
           SubSeq(RecordBytes(9, 0, 0, 0), 1, 15),
           RecordBytes(9, 3, 3, 2),
           <<1, 0, 0, 0, 0, 0, 0, 0, 255, 255, 255, 255, 255, 255, 255, 255>> }

\* a recognised header followed by records and a tail; the tail, when there
\* is one, stands for the last of at most MaxRecs records
TailsAfter(l) == { t \in Tails : t = <<>> \/ Len(l) < MaxRecs }

MainInputs ==
    UNION { { [ kind |-> "pcap", layout |-> l, tail |-> t,
                header |-> HeaderBytes(Magic, <<0, 0, 0, 0>>, <<0, 0, 0, 0>>, <<1, 0, 0, 0>>) ] :
              t \in TailsAfter(l) } : l \in Layouts }

SmallLayouts == { <<>>, << <<1, 2>> >> }

\* every value of the reserved and packed fields tried, few records
HeaderInputs ==
    { [ kind |-> "pcap", layout |-> l, tail |-> <<>>,
        header |-> HeaderBytes(Magic, r[1], r[2], t) ] :
        l \in SmallLayouts, r \in Reserved \X Reserved, t \in Trailers }

\* another magic; or the file ends inside the header
UnrecognisedInputs ==
    { [ kind |-> "badmagic", layout |-> l, tail |-> <<>>,
        header |-> HeaderBytes(m, <<0, 0, 0, 0>>, <<0, 0, 0, 0>>, <<1, 0, 0, 0>>) ] :
        l \in SmallLayouts, m \in OtherMagics }
    \cup
    { [ kind |-> "short", layout |-> <<>>, tail |-> <<>>,
        header |-> SubSeq(HeaderBytes(Magic, <<0, 0, 0, 0>>, <<0, 0, 0, 0>>, <<1, 0, 0, 0>>),
                          1, k) ] : k \in {0, 3, 4, 23} }

Inputs == MainInputs \cup HeaderInputs \cup UnrecognisedInputs

\* the bytes of an input file
FileBytes(g) == g.header \o BodyBytes(g.layout, 1) \o g.tail

----------------------------------------------------------------------------
(* main *)

Init ==
    /\ gen \in Inputs
    /\ reader = FileBytes(gen)
    /\ verbose \in BOOLEAN
    /\ pc = "start"
    /\ header = None
    /\ records = <<>>
    /\ detruncated = <<>>
    /\ count = 0
    /\ orig_size = 0
    /\ out_size = 0
    /\ data = <<>>
    /\ output = NoFile
    /\ stdout = <<>>

\* if let Some(header) = PcapHeader::read(&reader) { println!("Loading ...
LoadHeader ==
    /\ pc = "start"
    /\ LET read == PcapHeaderRead(reader)
       IN  /\ read # None
           /\ header' = read
    /\ stdout' = Append(stdout, <<"Loading">>)
    /\ pc' = "loaded"
    /\ UNCHANGED <<reader, verbose, gen, records, detruncated, count, orig_size,
                   out_size, data, output>>

\* } else { println!("Error: {} cannot be loaded as a pcap file", ...) }
NotPcap ==
    /\ pc = "start"
    /\ PcapHeaderRead(reader) = None
    /\ stdout' = Append(stdout, <<"Error: cannot be loaded as a pcap file">>)
    /\ pc' = "done"
    /\ UNCHANGED <<reader, verbose, gen, header, records, detruncated, count,
                   orig_size, out_size, data, output>>

\* let records = PcapRecord::read_all(&reader[PCAP_HEADER_LEN..]);
ReadAll ==
    /\ pc = "loaded"
    /\ records' = PcapRecordReadAll(SubSeq(reader, PCAP_HEADER_LEN + 1, Len(reader)))
    /\ stdout' = Append(stdout, <<"Detruncating pcap records">>)
    /\ pc' = "parsed"
    /\ UNCHANGED <<reader, verbose, gen, header, detruncated, count, orig_size,
                   out_size, data, output>>

\* let detruncated = PcapRecord::detruncate(records, &opt);
Detruncate ==
    /\ pc = "parsed"
    /\ LET r == PcapRecordDetruncate(records, verbose)
       IN  /\ ~r.panicked
           /\ detruncated' = r.out
           /\ count' = r.count
           /\ orig_size' = r.orig_size
           /\ out_size' = r.out_size
           /\ stdout' = stdout \o r.log \o << <<"Preparing data to write">> >>
    /\ pc' = "detruncated"
    /\ UNCHANGED <<reader, verbose, gen, header, records, data, output>>

\* panic!("Error: Captured length is greater than original length!")
DetruncatePanic ==
    /\ pc = "parsed"
    /\ LET r == PcapRecordDetruncate(records, verbose)
       IN  /\ r.panicked
           /\ count' = r.count
           /\ orig_size' = r.orig_size
           /\ out_size' = r.out_size
           /\ stdout' = stdout \o r.log
    /\ pc' = "panicked"
    /\ UNCHANGED <<reader, verbose, gen, header, records, detruncated, data, output>>

\* let mut data = header.out(); data.append(&mut PcapRecord::write_all(...));
PrepareData ==
    /\ pc = "detruncated"
    /\ data' = PcapHeaderOut(header.val) \o PcapRecordWriteAll(detruncated, verbose)
    /\ stdout' = Append(stdout, <<"Writing output">>)
    /\ pc' = "prepared"
    /\ UNCHANGED <<reader, verbose, gen, header, records, detruncated, count,
                   orig_size, out_size, output>>

\* File::create(&opt.output)
CreateOutput ==
    /\ pc = "prepared"
    /\ output' = <<>>
    /\ pc' = "created"
    /\ UNCHANGED <<reader, verbose, gen, header, records, detruncated, count,
                   orig_size, out_size, data, stdout>>

\* output.write_all(&data)
WriteOutput ==
    /\ pc = "created"
    /\ output' = data
    /\ pc' = "done"
    /\ UNCHANGED <<reader, verbose, gen, header, records, detruncated, count,
                   orig_size, out_size, data, stdout>>

Next ==
    \/ LoadHeader
    \/ NotPcap
    \/ ReadAll
    \/ Detruncate
    \/ DetruncatePanic
    \/ PrepareData
    \/ CreateOutput
    \/ WriteOutput

Spec == Init /\ [][Next]_vars

----------------------------------------------------------------------------
(* Properties *)

\* detruncate has returned
Returned == pc \in {"detruncated", "prepared", "created", "done"} /\ header # None

\* read_all has returned
Parsed == pc \notin {"start", "loaded"} /\ header # None

Zeros(n) == [j \in 1..n |-> 0]

\* C1: when detruncate returns (its input being parsed records, whose data
\* has caplen bytes, none with caplen > origlen), every output record has
\* caplen == origlen and origlen bytes of data.
C1_RepairedLengths ==
    Returned =>
        \A i \in 1..Len(detruncated) :
            /\ detruncated[i].caplen = detruncated[i].origlen
            /\ Len(detruncated[i].data) = U32ToUsize(detruncated[i].origlen)

C1_Witness ==
    /\ pc = "detruncated"
    /\ Len(records) = 2
    /\ Len(records[1].data) = 1 /\ U32ToUsize(records[1].caplen) = 1
    /\ U32ToUsize(records[1].origlen) = 2
    /\ records[2].caplen = records[2].origlen

\* C2: for every input record with caplen < origlen, the output record's data
\* is the input data followed by origlen - caplen zero bytes: the captured
\* bytes keep their values and positions, nothing is put in front.
C2_PaddingLaw ==
    Returned =>
        \A i \in 1..Len(records) :
            U32Greater(records[i].origlen, records[i].caplen) =>
                /\ i <= Len(detruncated)
                /\ detruncated[i].data =
                       records[i].data
                       \o Zeros(U32ToUsize(records[i].origlen) - U32ToUsize(records[i].caplen))
                /\ SubSeq(detruncated[i].data, 1, Len(records[i].data)) = records[i].data

C2_Witness ==
    /\ pc = "detruncated"
    /\ Len(records) = 2
    /\ records[2].data = <<33>>
    /\ U32ToUsize(records[2].origlen) = 2
    /\ detruncated[2].data = <<33, 0>>

\* C3: if any parsed record, at any position, has caplen > origlen, the run
\* stops inside detruncate: main gets no further, no output buffer is
\* prepared and the output file is never created.
C3_BadLengthAborts ==
    (\E i \in 1..Len(records) : U32Greater(records[i].caplen, records[i].origlen)) =>
        /\ pc \in {"parsed", "panicked"}
        /\ output = NoFile
        /\ data = <<>>
        /\ detruncated = <<>>

C3_Witness ==
    /\ pc = "panicked"
    /\ Len(records) = 2
    /\ U32Greater(records[1].origlen, records[1].caplen)
    /\ U32Greater(records[2].caplen, records[2].origlen)
    /\ output = NoFile

\* the file has fewer than 24 bytes, or its first four bytes are not the
\* little-endian bytes of 0xa1b2c3d4
Unrecognised == Len(reader) < 24 \/ SubSeq(reader, 1, 4) # <<212, 195, 178, 161>>

\* C4: PcapHeader::read returns None exactly when the buffer has fewer than
\* 24 bytes or another magic; main then parses no record, creates no output
\* file and ends normally after the "cannot be loaded as a pcap file" line.
C4_UnrecognisedRejected ==
    /\ pc = "start" => ((PcapHeaderRead(reader) = None) <=> Unrecognised)
    /\ pc # "start" => ((header = None) <=> Unrecognised)
    /\ (Unrecognised /\ pc # "start") =>
           /\ pc = "done"
           /\ records = <<>>
           /\ detruncated = <<>>
           /\ data = <<>>
           /\ output = NoFile
           /\ stdout = << <<"Error: cannot be loaded as a pcap file">> >>

C4_Witness ==
    /\ pc = "done"
    /\ Len(reader) > 24
    /\ SubSeq(reader, 1, 4) = <<77, 60, 178, 161>>
    /\ output = NoFile

\* C5: for a buffer of at least 24 bytes with the right magic, the header
\* read from it is written back as exactly the buffer's first 24 bytes,
\* whatever the packed 3-bit, 1-bit and 28-bit fields and the reserved
\* fields hold.
C5_HeaderRoundTrip ==
    (~Unrecognised /\ pc # "start") =>
        /\ header # None
        /\ pc = "loaded" => PcapHeaderOut(header.val) = SubSeq(reader, 1, 24)
        /\ pc \in {"prepared", "created", "done"} => SubSeq(data, 1, 24) = SubSeq(reader, 1, 24)

C5_Witness ==
    /\ pc = "loaded"
    /\ SubSeq(reader, 21, 24) = <<181, 18, 52, 246>>
    /\ SubSeq(reader, 9, 12) = <<255, 0, 128, 7>>
    /\ header.val.fcs = 5
    /\ header.val.f = 1

\* the file is a recognised header followed by complete records only, each
\* with caplen == origlen
CompleteInput ==
    /\ gen.kind = "pcap"
    /\ gen.tail = <<>>
    /\ \A i \in 1..Len(gen.layout) : gen.layout[i][1] = gen.layout[i][2]

\* C6: for a valid header followed by complete records that all have
\* caplen == origlen, the bytes written to the output file are the input
\* bytes.
C6_IdentityPipeline ==
    CompleteInput =>
        /\ pc \in {"prepared", "created", "done"} => data = reader
        /\ pc = "done" => output = reader

C6_Witness ==
    /\ pc = "done"
    /\ CompleteInput
    /\ Len(gen.layout) = 2
    /\ gen.layout[1][1] = 2
    /\ gen.layout[2][1] = 1
    /\ Len(output) = 24 + 18 + 17

\* bytes taken by the records before the i-th
RECURSIVE ConsumedBefore(_, _)
ConsumedBefore(recs, i) ==
    IF i <= 1 THEN 0
    ELSE ConsumedBefore(recs, i - 1) + 16 + U32ToUsize(recs[i - 1].caplen)

\* C7: read_all returns the longest run of complete records from the start
\* of the buffer: record i is read at the offset reached by advancing
\* 16 + caplen per record, every record lies inside the buffer, and what is
\* left after the last one is shorter than a record header or than the
\* header plus the data it declares; those bytes are dropped.
C7_ReadAllLongestRun ==
    (Parsed /\ gen.kind = "pcap") =>
        LET body == SubSeq(reader, 25, Len(reader))
            used == ConsumedBefore(records, Len(records) + 1)
            rest == SubSeq(body, used + 1, Len(body))
        IN  /\ Len(records) = Len(gen.layout)
            /\ \A i \in 1..Len(records) :
                   LET off == ConsumedBefore(records, i)
                   IN  /\ off + 16 + U32ToUsize(records[i].caplen) <= Len(body)
                       /\ records[i].ts = [lo |-> 232 + i + 256 * 3, hi |-> i]
                       /\ records[i].tn = [lo |-> i, hi |-> 16 + 256 * 128]
                       /\ U32ToUsize(records[i].caplen) = gen.layout[i][1]
                       /\ U32ToUsize(records[i].origlen) = gen.layout[i][2]
                       /\ records[i].data =
                              SubSeq(body, off + 17, off + 16 + gen.layout[i][1])
                       /\ records[i].data = [j \in 1..gen.layout[i][1] |-> 16 * i + j]
            /\ used <= Len(body)
            /\ rest = gen.tail
            /\ \/ Len(rest) < 16
               \/ U32Greater(U32FromLeBytes(SubSeq(rest, 9, 12)), UsizeToU32(Len(rest) - 16))

C7_Witness ==
    /\ pc = "parsed"
    /\ Len(records) = 1
    /\ Len(records[1].data) = 2
    /\ Len(gen.tail) = 18
    /\ Len(reader) = 24 + 18 + 18

\* C8: when detruncate returns, the output has as many records as the input,
\* in the same order; ts, tn and origlen of every record are unchanged, and
\* a record with caplen == origlen is passed through as it is.
C8_FramePreserved ==
    Returned =>
        /\ Len(detruncated) = Len(records)
        /\ \A i \in 1..Len(records) :
               /\ i <= Len(detruncated)
               /\ detruncated[i].ts = records[i].ts
               /\ detruncated[i].tn = records[i].tn
               /\ detruncated[i].origlen = records[i].origlen
               /\ records[i].caplen = records[i].origlen => detruncated[i] = records[i]

C8_Witness ==
    /\ pc = "detruncated"
    /\ Len(records) = 2
    /\ records[1].caplen = records[1].origlen
    /\ Len(records[1].data) = 2
    /\ U32Greater(records[2].origlen, records[2].caplen)
    /\ detruncated[1] = records[1]

\* C9: detruncate applied to its own output returns that output and repairs
\* no record.
C9_Idempotent ==
    Returned =>
        LET again == PcapRecordDetruncate(detruncated, verbose)
        IN  /\ ~again.panicked
            /\ again.out = detruncated
            /\ again.count = 0

C9_Witness ==
    /\ pc = "detruncated"
    /\ Len(records) = 2
    /\ count = 2
    /\ detruncated # records

\* C10: verbose and the reporting counters do not influence the transform:
\* the records detruncate returned, the bytes prepared from them, and
\* whether the run aborted, are what the opposite setting of verbose gives
\* for the same input records.
C10_VerboseNoInfluence ==
    Parsed =>
        LET other == PcapRecordDetruncate(records, ~verbose)
        IN  /\ pc = "panicked" => other.panicked
            /\ Returned =>
                   /\ ~other.panicked
                   /\ detruncated = other.out
                   /\ PcapRecordWriteAll(detruncated, verbose)
                          = PcapRecordWriteAll(other.out, ~verbose)
            /\ pc \in {"prepared", "created", "done"} =>
                   SubSeq(data, 25, Len(data)) = PcapRecordWriteAll(other.out, ~verbose)

C10_Witness ==
    /\ pc = "prepared"
    /\ verbose
    /\ count = 1
    /\ Len(records) = 2
    /\ out_size > orig_size
    /\ PcapRecordDetruncate(records, FALSE).out_size = 24

====
